---- MODULE Spec2Model ----
(***************************************************************************)
(* Model of src/json_comparator.py: the callTracer comparison core         *)
(* (normalize_call_trace, compare_json_recursive, compare_call_traces,     *)
(* ComparisonResult.summary and detailed_report), and of the waiting loop  *)
(* and the scenario runner of src/call_tracer_tests.py.                    *)
(*                                                                         *)
(* Python values are tagged records [t |-> <python type name>, v |->       *)
(* payload].  A dict is the sequence of its items in insertion order, a    *)
(* list the sequence of its elements, a float its value in tenths.         *)
(***************************************************************************)
EXTENDS Integers, Sequences, FiniteSets, TLC

VARIABLES pc, geth_obj, besu_obj, path, differences, normalized, renormalized, result,
          norm_flag, summary_lines, report_lines, differences2, diff_id, diff2_id,
          wait, lookup_log,
          s_pc, verbose, tx_hash, waited, geth_response, besu_response, exception,
          test_result

\* the state of the client and test runner of src/call_tracer_tests.py
rpc_vars == <<wait, lookup_log,
              s_pc, verbose, tx_hash, waited, geth_response, besu_response, exception,
              test_result>>

\* the state of the comparison harness
cmp_vars == <<pc, geth_obj, besu_obj, path, differences, normalized, renormalized, result,
              norm_flag, summary_lines, report_lines, differences2, diff_id, diff2_id>>

vars == <<cmp_vars, rpc_vars>>

(***************************************************************************)
(* Bounds of the input universe.                                           *)
(***************************************************************************)
MaxLen == 2
MaxInt == 1

(***************************************************************************)
(* Python values.                                                          *)
(***************************************************************************)
JNull == [t |-> "NoneType", v |-> 0]
JBool(b) == [t |-> "bool", v |-> b]
JInt(i) == [t |-> "int", v |-> i]
JFloat(tenths) == [t |-> "float", v |-> tenths]
JStr(s) == [t |-> "str", v |-> s]
JList(elems) == [t |-> "list", v |-> elems]
JDict(items) == [t |-> "dict", v |-> items]

Item(key, value) == [k |-> key, v |-> value]

\* x is None
IsNone(x) == x.t = "NoneType"

\* type(x)
TypeOf(x) == x.t

\* isinstance(x, (int, str)); bool is a subclass of int
IsIntOrStr(x) == x.t \in {"int", "bool", "str"}

\* isinstance(x, Mapping)
IsMapping(x) == x.t = "dict"

\* isinstance(x, Sequence) and not isinstance(x, str)
IsSequence(x) == x.t = "list"

\* str(x) for the values the comparator stringifies
PyStr(x) ==
  CASE x.t = "str" -> x.v
    [] x.t = "int" -> ToString(x.v)
    [] x.t = "bool" -> IF x.v THEN "True" ELSE "False"

\* len(x) of a list or dict
PyLen(x) == Len(x.v)

\* set(d.keys())
Keys(d) == {d.v[i].k : i \in DOMAIN d.v}

\* key in d
HasKey(d, key) == key \in Keys(d)

\* d[key]
Get(d, key) == d.v[CHOOSE i \in DOMAIN d.v : d.v[i].k = key].v

\* d[key] = value on the item sequence of a dict
SetItem(items, key, value) ==
  IF \E i \in DOMAIN items : items[i].k = key
  THEN [i \in DOMAIN items |-> IF items[i].k = key THEN Item(key, value) ELSE items[i]]
  ELSE Append(items, Item(key, value))

\* The keys of the model, in ascending code point order (the order of sorted()).
KeyOrder ==
  <<"calls", "error", "from", "gas", "gas.x", "gasUsed", "input", "output",
    "revertReason", "to", "type", "value", "x">>

\* sorted(keys)
Sorted(keys) == SelectSeq(KeyOrder, LAMBDA key : key \in keys)

(***************************************************************************)
(* normalize_call_trace                                                    *)
(***************************************************************************)
fields ==
  <<"from", "to", "type", "input", "output", "error", "revertReason",
    "gas", "gasUsed", "value", "calls">>

RECURSIVE normalize_call_trace(_)
RECURSIVE normalize_calls(_)
RECURSIVE normalize_fields(_, _, _)

\* variant: the first call is skipped
normalize_calls_skip(calls) ==
  IF calls = <<>> THEN <<>> ELSE normalize_calls(Tail(calls))

\* [normalize_call_trace(call) for call in calls]
normalize_calls(calls) ==
  IF calls = <<>> THEN <<>>
  ELSE <<normalize_call_trace(Head(calls))>> \o normalize_calls(Tail(calls))

\* variant: a field with a None value is kept
normalize_field_keep_none(trace, items, field) ==
  IF HasKey(trace, field)
  THEN IF field = "calls"
       THEN LET calls == Get(trace, field) IN
            IF calls.t = "list" /\ PyLen(calls) > 0
            THEN SetItem(items, "calls", JList(normalize_calls(calls.v)))
            ELSE items
       ELSE SetItem(items, field, Get(trace, field))
  ELSE items

\* variant: an empty calls list is kept
normalize_field_keep_empty(trace, items, field) ==
  IF HasKey(trace, field) /\ ~IsNone(Get(trace, field))
  THEN IF field = "calls"
       THEN LET calls == Get(trace, field) IN
            IF calls.t = "list"
            THEN SetItem(items, "calls", JList(normalize_calls(calls.v)))
            ELSE items
       ELSE SetItem(items, field, Get(trace, field))
  ELSE items

\* variant: the calls are copied without being normalized
normalize_field_shallow(trace, items, field) ==
  IF HasKey(trace, field) /\ ~IsNone(Get(trace, field))
  THEN IF field = "calls"
       THEN LET calls == Get(trace, field) IN
            IF calls.t = "list" /\ PyLen(calls) > 0
            THEN SetItem(items, "calls", calls)
            ELSE items
       ELSE SetItem(items, field, Get(trace, field))
  ELSE items

\* the body of the loop over fields, for one field
normalize_field(trace, items, field) ==
  IF HasKey(trace, field) /\ ~IsNone(Get(trace, field))
  THEN IF field = "calls"
       THEN LET calls == Get(trace, field) IN
            IF calls.t = "list" /\ PyLen(calls) > 0
            THEN SetItem(items, "calls", JList(normalize_calls(calls.v)))
            ELSE items
       ELSE SetItem(items, field, Get(trace, field))
  ELSE items

\* for field in fields
normalize_fields(trace, items, rest) ==
  IF rest = <<>> THEN items
  ELSE normalize_fields(trace, normalize_field(trace, items, Head(rest)), Tail(rest))

\* variant: the recognized fields are taken in the key order of the input
normalize_call_trace_input_order(trace) ==
  IF trace.t # "dict" THEN trace
  ELSE LET present == SelectSeq(trace.v, LAMBDA it : \E i \in DOMAIN fields : fields[i] = it.k)
       IN JDict(normalize_fields(trace, <<>>, [i \in DOMAIN present |-> present[i].k]))

\* variant: a list given directly is normalized element by element
normalize_call_trace_lists(trace) ==
  IF trace.t = "list" THEN JList(normalize_calls(trace.v))
  ELSE IF trace.t # "dict" THEN trace
  ELSE JDict(normalize_fields(trace, <<>>, fields))

normalize_call_trace(trace) ==
  IF trace.t # "dict" THEN trace
  ELSE JDict(normalize_fields(trace, <<>>, fields))

(***************************************************************************)
(* compare_json_recursive                                                  *)
(***************************************************************************)
DiffResult(p, gv, bv, dt) ==
  [path |-> p, geth_value |-> gv, besu_value |-> bv, diff_type |-> dt]

RECURSIVE compare_json_recursive(_, _, _, _)
RECURSIVE compare_keys(_, _, _, _, _)
RECURSIVE compare_elements(_, _, _, _, _)

\* variant: the two missing kinds exchanged
compare_none_swapped(g, b, p, diffs) ==
  IF IsNone(g) /\ IsNone(b) THEN diffs
  ELSE IF IsNone(g) THEN Append(diffs, DiffResult(p, JNull, b, "missing_in_besu"))
  ELSE Append(diffs, DiffResult(p, g, JNull, "missing_in_geth"))

\* the None/null cases; reached when at least one side is None
compare_none(g, b, p, diffs) ==
  IF IsNone(g) /\ IsNone(b) THEN diffs
  ELSE IF IsNone(g) THEN Append(diffs, DiffResult(p, JNull, b, "missing_in_geth"))
  ELSE Append(diffs, DiffResult(p, g, JNull, "missing_in_besu"))

\* variant: no int/str special case
compare_type_mismatch_strict(g, b, p, diffs) ==
  Append(diffs, DiffResult(p, g, b, "type_mismatch"))

\* the branch taken when type(geth_obj) != type(besu_obj)
compare_type_mismatch(g, b, p, diffs) ==
  IF IsIntOrStr(g) /\ IsIntOrStr(b)
  THEN IF PyStr(g) # PyStr(b)
       THEN Append(diffs, DiffResult(p, g, b, "value_mismatch"))
       ELSE diffs
  ELSE Append(diffs, DiffResult(p, g, b, "type_mismatch"))

\* variant: a key on one side only is reported with the wrong side's kind
compare_key_swapped(g, b, p, diffs, key) ==
  LET new_path == p \o "." \o key IN
  IF ~HasKey(g, key)
  THEN Append(diffs, DiffResult(new_path, JNull, Get(b, key), "missing_in_besu"))
  ELSE IF ~HasKey(b, key)
  THEN Append(diffs, DiffResult(new_path, Get(g, key), JNull, "missing_in_geth"))
  ELSE compare_json_recursive(Get(g, key), Get(b, key), new_path, diffs)

\* the body of the loop over sorted(all_keys), for one key
compare_key(g, b, p, diffs, key) ==
  LET new_path == p \o "." \o key IN
  IF ~HasKey(g, key)
  THEN Append(diffs, DiffResult(new_path, JNull, Get(b, key), "missing_in_geth"))
  ELSE IF ~HasKey(b, key)
  THEN Append(diffs, DiffResult(new_path, Get(g, key), JNull, "missing_in_besu"))
  ELSE compare_json_recursive(Get(g, key), Get(b, key), new_path, diffs)

\* for key in sorted(all_keys)
compare_keys(g, b, p, diffs, keys) ==
  IF keys = <<>> THEN diffs
  ELSE compare_keys(g, b, p, compare_key(g, b, p, diffs, Head(keys)), Tail(keys))

\* variant: only the keys of the geth side are visited
compare_mapping_geth_keys(g, b, p, diffs) ==
  compare_keys(g, b, p, diffs, Sorted(Keys(g)))

\* variant: the keys are visited in insertion order, geth side first
compare_mapping_insertion(g, b, p, diffs) ==
  compare_keys(g, b, p, diffs,
    [i \in DOMAIN g.v |-> g.v[i].k]
      \o [i \in DOMAIN SelectSeq(b.v, LAMBDA it : ~HasKey(g, it.k)) |->
            SelectSeq(b.v, LAMBDA it : ~HasKey(g, it.k))[i].k])

\* variant: the keys of the geth side followed by the keys of the besu side,
\* a common key being visited twice
compare_mapping_concat(g, b, p, diffs) ==
  compare_keys(g, b, p, diffs,
    [i \in DOMAIN g.v |-> g.v[i].k] \o [i \in DOMAIN b.v |-> b.v[i].k])

\* the dictionary branch
compare_mapping(g, b, p, diffs) ==
  compare_keys(g, b, p, diffs, Sorted(Keys(g) \cup Keys(b)))

Min(a, b) == IF a < b THEN a ELSE b

\* variant: the length record only when the geth side is longer
compare_length_longer(g, b, p, diffs) ==
  IF PyLen(g) > PyLen(b)
  THEN Append(diffs, DiffResult(p \o ".length", JInt(PyLen(g)), JInt(PyLen(b)),
                                "value_mismatch"))
  ELSE diffs

\* the length check of the list branch
compare_length(g, b, p, diffs) ==
  IF PyLen(g) # PyLen(b)
  THEN Append(diffs, DiffResult(p \o ".length", JInt(PyLen(g)), JInt(PyLen(b)),
                                "value_mismatch"))
  ELSE diffs

\* variant: the index in the path counts from one
compare_elements_one_based(g, b, p, diffs, i) ==
  IF i >= Min(PyLen(g), PyLen(b)) THEN diffs
  ELSE compare_elements(g, b, p,
         compare_json_recursive(g.v[i + 1], b.v[i + 1],
                                p \o "[" \o ToString(i + 1) \o "]", diffs),
         i + 1)

\* for i in range(min(len(geth_obj), len(besu_obj))), from index i (0-based) on
compare_elements(g, b, p, diffs, i) ==
  IF i >= Min(PyLen(g), PyLen(b)) THEN diffs
  ELSE compare_elements(g, b, p,
         compare_json_recursive(g.v[i + 1], b.v[i + 1],
                                p \o "[" \o ToString(i) \o "]", diffs),
         i + 1)

\* variant: lists of different lengths are not compared element by element
compare_sequence_short_circuit(g, b, p, diffs) ==
  IF PyLen(g) # PyLen(b) THEN compare_length(g, b, p, diffs)
  ELSE compare_elements(g, b, p, diffs, 0)

\* the list branch
compare_sequence(g, b, p, diffs) ==
  compare_elements(g, b, p, compare_length(g, b, p, diffs), 0)

\* variant: the test of the primitive branch inverted
compare_primitive_inverted(g, b, p, diffs) ==
  IF g = b THEN Append(diffs, DiffResult(p, g, b, "value_mismatch")) ELSE diffs

\* variant: unequal primitives reported as a type mismatch
compare_primitive_kind(g, b, p, diffs) ==
  IF g # b THEN Append(diffs, DiffResult(p, g, b, "type_mismatch")) ELSE diffs

\* the primitive branch
compare_primitive(g, b, p, diffs) ==
  IF g # b THEN Append(diffs, DiffResult(p, g, b, "value_mismatch")) ELSE diffs

compare_json_recursive(g, b, p, diffs) ==
  IF IsNone(g) \/ IsNone(b) THEN compare_none(g, b, p, diffs)
  ELSE IF TypeOf(g) # TypeOf(b) THEN compare_type_mismatch(g, b, p, diffs)
  ELSE IF IsMapping(g) THEN compare_mapping(g, b, p, diffs)
  ELSE IF IsSequence(g) THEN compare_sequence(g, b, p, diffs)
  ELSE compare_primitive(g, b, p, diffs)

(***************************************************************************)
(* normalize_hex_value, deep_normalize_hex.  Strings are atoms of the      *)
(* model: Chars spells out the strings of the model that start with "0x";  *)
(* every other string of the model does not start with "0x" and is left    *)
(* as one piece.                                                           *)
(***************************************************************************)
Chars(s) ==
  CASE s = "0x" -> <<"0", "x">>
    [] s = "0x0" -> <<"0", "x", "0">>
    [] s = "0x00" -> <<"0", "x", "0", "0">>
    [] s = "0x1" -> <<"0", "x", "1">>
    [] s = "0x01" -> <<"0", "x", "0", "1">>
    [] OTHER -> <<s>>

RECURSIVE Join(_)
\* ''.join(chars)
Join(chars) == IF chars = <<>> THEN "" ELSE Head(chars) \o Join(Tail(chars))

\* value.startswith('0x')
StartsWith0x(chars) == Len(chars) >= 2 /\ chars[1] = "0" /\ chars[2] = "x"

RECURSIVE lstrip0(_)
\* chars.lstrip('0')
lstrip0(chars) ==
  IF chars # <<>> /\ Head(chars) = "0" THEN lstrip0(Tail(chars)) ELSE chars

normalize_hex_value(value) ==
  IF value.t = "str" /\ StartsWith0x(Chars(value.v))
  THEN LET chars == Chars(value.v) IN
       IF Len(chars) > 2
       THEN LET stripped == lstrip0(SubSeq(chars, 3, Len(chars))) IN
            JStr("0x" \o (IF stripped = <<>> THEN "0" ELSE Join(stripped)))
       ELSE value
  ELSE value

RECURSIVE deep_normalize_hex(_)
deep_normalize_hex(obj) ==
  IF obj.t = "dict"
  THEN JDict([i \in DOMAIN obj.v |-> Item(obj.v[i].k, deep_normalize_hex(obj.v[i].v))])
  ELSE IF obj.t = "list"
  THEN JList([i \in DOMAIN obj.v |-> deep_normalize_hex(obj.v[i])])
  ELSE normalize_hex_value(obj)

(***************************************************************************)
(* The accumulator of compare_json_recursive.  List objects are numbered   *)
(* in order of creation; two names are the same list when they hold the    *)
(* same number.                                                            *)
(***************************************************************************)
\* variant: one list, made when the function is defined, serves every call
new_list_shared(allocated) == 1

\* differences = [] when the argument is None: a list made by this call;
\* allocated is the number of lists made before
new_list(allocated) == allocated + 1

(***************************************************************************)
(* compare_call_traces                                                     *)
(***************************************************************************)
ComparisonResult(im, diffs, gn, bn) ==
  [is_match |-> im, differences |-> diffs, geth_normalized |-> gn, besu_normalized |-> bn]

\* variant: is_match from equality of the two trees
compare_call_traces_equal(geth_result, besu_result, normalize) ==
  LET geth_normalized == IF normalize THEN normalize_call_trace(geth_result) ELSE geth_result
      besu_normalized == IF normalize THEN normalize_call_trace(besu_result) ELSE besu_result
      diffs == compare_json_recursive(geth_normalized, besu_normalized, "root", <<>>)
  IN ComparisonResult(geth_normalized = besu_normalized, diffs,
                      geth_normalized, besu_normalized)

\* variant: the raw trees are compared whatever the flag
compare_call_traces_raw(geth_result, besu_result, normalize) ==
  LET geth_normalized == IF normalize THEN normalize_call_trace(geth_result) ELSE geth_result
      besu_normalized == IF normalize THEN normalize_call_trace(besu_result) ELSE besu_result
      diffs == compare_json_recursive(geth_result, besu_result, "root", <<>>)
  IN ComparisonResult(Len(diffs) = 0, diffs, geth_normalized, besu_normalized)

\* variant: the hex values of both trees are normalized before the walk
compare_call_traces_hex(geth_result, besu_result, normalize) ==
  LET geth_normalized ==
        deep_normalize_hex(IF normalize THEN normalize_call_trace(geth_result)
                           ELSE geth_result)
      besu_normalized ==
        deep_normalize_hex(IF normalize THEN normalize_call_trace(besu_result)
                           ELSE besu_result)
      diffs == compare_json_recursive(geth_normalized, besu_normalized, "root", <<>>)
  IN ComparisonResult(Len(diffs) = 0, diffs, geth_normalized, besu_normalized)

compare_call_traces(geth_result, besu_result, normalize) ==
  LET geth_normalized == IF normalize THEN normalize_call_trace(geth_result) ELSE geth_result
      besu_normalized == IF normalize THEN normalize_call_trace(besu_result) ELSE besu_result
      diffs == compare_json_recursive(geth_normalized, besu_normalized, "root", <<>>)
  IN ComparisonResult(Len(diffs) = 0, diffs, geth_normalized, besu_normalized)

(***************************************************************************)
(* ComparisonResult.summary.  The returned text is the sequence of its     *)
(* lines; a line is a record of what the line is made of.                  *)
(***************************************************************************)
\* diffs[:10]
DisplayLimit == 10

PassLine == [line |-> "pass", n |-> 0, diff_type |-> "", diff |-> <<>>]
HeaderLine(n) == [line |-> "fail", n |-> n, diff_type |-> "", diff |-> <<>>]
GroupLine(dt, n) == [line |-> "group", n |-> n, diff_type |-> dt, diff |-> <<>>]
DiffLine(d) == [line |-> "diff", n |-> 0, diff_type |-> d.diff_type, diff |-> <<d>>]
MoreLine(n) == [line |-> "more", n |-> n, diff_type |-> "", diff |-> <<>>]

RECURSIVE group_by_type(_, _)
\* by_type after the loop over the differences: the kinds in order of first
\* appearance, each with its records in order
group_by_type(diffs, by_type) ==
  IF diffs = <<>> THEN by_type
  ELSE LET d == Head(diffs)
           dt == d.diff_type IN
       group_by_type(Tail(diffs),
         IF \E i \in DOMAIN by_type : by_type[i].k = dt
         THEN [i \in DOMAIN by_type |->
                 IF by_type[i].k = dt THEN Item(dt, Append(by_type[i].v, d))
                 ELSE by_type[i]]
         ELSE Append(by_type, Item(dt, <<d>>)))

\* diffs[:n]
Prefix(diffs, n) == SubSeq(diffs, 1, Min(n, Len(diffs)))

RECURSIVE diff_lines(_)
\* one line per record
diff_lines(diffs) ==
  IF diffs = <<>> THEN <<>> ELSE <<DiffLine(Head(diffs))>> \o diff_lines(Tail(diffs))

\* variant: the overflow line from the limit on
summary_group_from_limit(dt, diffs) ==
  <<GroupLine(dt, Len(diffs))>>
    \o diff_lines(Prefix(diffs, DisplayLimit))
    \o (IF Len(diffs) >= DisplayLimit THEN <<MoreLine(Len(diffs) - DisplayLimit)>> ELSE <<>>)

\* the lines of one group
summary_group(dt, diffs) ==
  <<GroupLine(dt, Len(diffs))>>
    \o diff_lines(Prefix(diffs, DisplayLimit))
    \o (IF Len(diffs) > DisplayLimit THEN <<MoreLine(Len(diffs) - DisplayLimit)>> ELSE <<>>)

RECURSIVE summary_groups(_)
\* for diff_type, diffs in by_type.items()
summary_groups(by_type) ==
  IF by_type = <<>> THEN <<>>
  ELSE summary_group(Head(by_type).k, Head(by_type).v) \o summary_groups(Tail(by_type))

summary(self) ==
  IF self.is_match THEN <<PassLine>>
  ELSE <<HeaderLine(Len(self.differences))>>
         \o summary_groups(group_by_type(self.differences, <<>>))

(***************************************************************************)
(* ComparisonResult.detailed_report.  The returned text is the sequence of *)
(* its lines; a line is a record of what the line is made of.              *)
(***************************************************************************)
\* the value of a Geth: or Besu: line: json.dumps(v, indent=4) of a dict or
\* list, the value itself otherwise
Shown(v) == [dumps |-> v.t \in {"dict", "list"}, value |-> v]
NoValue == [dumps |-> FALSE, value |-> JNull]

MatchLine == [line |-> "match", n |-> 0, text |-> "", shown |-> NoValue]
RuleLine == [line |-> "rule", n |-> 60, text |-> "=", shown |-> NoValue]
TitleLine == [line |-> "title", n |-> 0, text |-> "DETAILED COMPARISON REPORT", shown |-> NoValue]
TotalLine(n) == [line |-> "total", n |-> n, text |-> "", shown |-> NoValue]
BlankLine == [line |-> "blank", n |-> 0, text |-> "", shown |-> NoValue]
NumberLine(i) == [line |-> "number", n |-> i, text |-> "", shown |-> NoValue]
PathLine(p) == [line |-> "path", n |-> 0, text |-> p, shown |-> NoValue]
TypeLine(dt) == [line |-> "type", n |-> 0, text |-> dt, shown |-> NoValue]
GethLine(v) == [line |-> "geth", n |-> 0, text |-> "", shown |-> Shown(v)]
BesuLine(v) == [line |-> "besu", n |-> 0, text |-> "", shown |-> Shown(v)]

\* the lines of one difference
report_entry(i, diff) ==
  <<NumberLine(i), PathLine(diff.path), TypeLine(diff.diff_type),
    GethLine(diff.geth_value), BesuLine(diff.besu_value), BlankLine>>

RECURSIVE report_entries(_, _)
\* for i, diff in enumerate(diffs, i)
report_entries(diffs, i) ==
  IF diffs = <<>> THEN <<>>
  ELSE report_entry(i, Head(diffs)) \o report_entries(Tail(diffs), i + 1)

\* variant: the entries stop at the display limit of the summary
detailed_report_capped(self) ==
  IF self.is_match THEN <<MatchLine>>
  ELSE <<RuleLine, TitleLine, RuleLine, TotalLine(Len(self.differences)), BlankLine>>
         \o report_entries(Prefix(self.differences, DisplayLimit), 1)

detailed_report(self) ==
  IF self.is_match THEN <<MatchLine>>
  ELSE <<RuleLine, TitleLine, RuleLine, TotalLine(Len(self.differences)), BlankLine>>
         \o report_entries(self.differences, 1)

(***************************************************************************)
(* The input universe: well-formed JSON trees.                             *)
(***************************************************************************)
Ints == 0..MaxInt
Strings == {"", "True", "1.5"} \cup {ToString(i) : i \in 1..MaxInt}

Scalars ==
  {JNull, JBool(TRUE), JBool(FALSE), JFloat(10), JFloat(15)}
    \cup {JInt(i) : i \in Ints} \cup {JStr(s) : s \in Strings}

\* the values placed inside containers
Leaf == {JNull, JInt(1), JStr("1")}

SeqsOver(E) == UNION {[1..n -> E] : n \in 0..MaxLen}

\* the keys of generated dicts: a recognized field and an unrecognized one
DictKeys == {"gas", "x"}

\* dicts over DictKeys in every insertion order
KeySeqs == {ks \in UNION {[1..n -> DictKeys] : n \in 0..Cardinality(DictKeys)} :
              \A i, j \in DOMAIN ks : i # j => ks[i] # ks[j]}

DictsOver(E) ==
  UNION {{JDict([i \in DOMAIN ks |-> Item(ks[i], vs[i])]) : vs \in [DOMAIN ks -> E]} :
           ks \in KeySeqs}

\* the elements of calls lists: call frames and a value that is not a frame
CallElems == {JInt(1), JDict(<<>>)} \cup {JDict(<<Item("gas", l)>>) : l \in Leaf}

\* call frames with a calls field
CallValues == {JNull, JInt(1)} \cup {JList(s) : s \in SeqsOver(CallElems)}
Frames == {JDict(<<Item("calls", c)>>) : c \in CallValues}

\* call frames whose calls hold call frames with calls of their own
DeepFrames ==
  {JDict(<<Item("calls", JList(<<f>>))>>) :
     f \in {fr \in Frames : Get(fr, "calls").t # "list" \/ PyLen(Get(fr, "calls")) <= 1}}

\* call frames with two recognized fields, in both insertion orders, with
\* null, empty and plain values
FieldValues == {JNull, JInt(1), JStr("")}
TwoFieldDicts ==
  {JDict(<<Item("gas", v), Item("to", w)>>) : v, w \in FieldValues}
    \cup {JDict(<<Item("to", w), Item("gas", v)>>) : v, w \in FieldValues}

\* call frames with a field holding an empty container
EmptyFieldDicts == {JDict(<<Item("gas", e)>>) : e \in {JList(<<>>), JDict(<<>>)}}

\* call frames with a plain field next to calls, in both insertion orders
MixedFrames ==
  LET cs == {JList(<<>>), JList(<<JDict(<<Item("gas", JInt(1))>>)>>)} IN
  {JDict(<<Item("calls", c), Item("gas", JInt(1))>>) : c \in cs}
    \cup {JDict(<<Item("gas", JInt(1)), Item("calls", c)>>) : c \in cs}

\* lists long enough to fill and to overflow a group of the summary
LongLists ==
  {JList([i \in 1..n |-> v]) : n \in DisplayLimit..(DisplayLimit + 2),
                               v \in {JNull, JInt(0), JInt(1)}}

\* hex strings that differ in leading zeros only, or in value, alone and as
\* the value field of a call frame
HexStrings == {"0x0", "0x00", "0x1"}
HexTrees ==
  {JStr(h) : h \in HexStrings} \cup {JDict(<<Item("value", JStr(h))>>) : h \in HexStrings}

\* lists of call frames given directly, the frames holding what a frame
\* would lose
FrameLists ==
  {JList(<<f>>) : f \in {JDict(<<Item("x", JInt(1))>>), JDict(<<Item("gas", JNull)>>)}}

\* a mapping with a key that reads like the path of a nested key
DottedTrees ==
  {JDict(<<Item("gas", JDict(<<Item("x", JInt(1))>>)), Item("gas.x", JInt(1))>>),
   JDict(<<Item("gas", JDict(<<>>))>>)}

Trees ==
  Scalars \cup {JList(s) : s \in SeqsOver(Leaf)} \cup DictsOver(Leaf)
    \cup Frames \cup DeepFrames
    \cup TwoFieldDicts \cup EmptyFieldDicts \cup MixedFrames \cup LongLists
    \cup HexTrees \cup FrameLists \cup DottedTrees

Paths == {"root", "root.calls[0]"}

(***************************************************************************)
(* The state machine: a harness holds two trees and applies the functions. *)
(***************************************************************************)
NoResult == ComparisonResult(TRUE, <<>>, JNull, JNull)

\* the client and the test runner are not running; an Optional is <<>> for
\* None and <<x>> for a value x
NoWait == [max_attempts |-> 0, lookups |-> 0, ret |-> "off"]
RpcIdle ==
  /\ wait = NoWait
  /\ lookup_log = <<>>
  /\ s_pc = "off"
  /\ verbose = FALSE
  /\ tx_hash = <<>>
  /\ waited = <<>>
  /\ geth_response = <<>>
  /\ besu_response = <<>>
  /\ exception = <<>>
  /\ test_result = <<>>

Init ==
  /\ pc = "idle"
  /\ geth_obj \in Trees
  /\ besu_obj \in Trees
  /\ path = "root"
  /\ differences = <<>>
  /\ normalized = JNull
  /\ renormalized = JNull
  /\ result = NoResult
  /\ norm_flag = FALSE
  /\ summary_lines = <<>>
  /\ report_lines = <<>>
  /\ differences2 = <<>>
  /\ diff_id = 0
  /\ diff2_id = 0
  /\ RpcIdle

\* compare_json_recursive(geth_obj, besu_obj, path)
CompareJsonRecursive ==
  /\ pc = "idle"
  /\ \E p \in Paths :
       /\ path' = p
       /\ differences' = compare_json_recursive(geth_obj, besu_obj, p, <<>>)
  /\ diff_id' = new_list(0)
  /\ pc' = "compared"
  /\ UNCHANGED <<geth_obj, besu_obj, normalized, renormalized, result,
                 norm_flag, summary_lines>>
  /\ UNCHANGED <<report_lines, differences2, diff2_id, rpc_vars>>

\* a later compare_json_recursive(besu_obj, geth_obj, path) while the caller
\* still holds the list returned by the first call; a list shared with the
\* first call is seen through both names
CompareAgain ==
  /\ pc = "compared"
  /\ LET id == new_list(diff_id)
         acc == IF id = diff_id THEN differences ELSE <<>>
         out == compare_json_recursive(besu_obj, geth_obj, path, acc)
     IN /\ diff2_id' = id
        /\ differences2' = out
        /\ differences' = IF id = diff_id THEN out ELSE differences
  /\ pc' = "compared_again"
  /\ UNCHANGED <<geth_obj, besu_obj, path, normalized, renormalized, result,
                 norm_flag, summary_lines, report_lines, diff_id, rpc_vars>>

\* variant: the trace is normalized in place
NormalizeCallTrace_in_place ==
  /\ pc = "idle"
  /\ geth_obj' = normalize_call_trace(geth_obj)
  /\ normalized' = geth_obj'
  /\ pc' = "normalized"
  /\ UNCHANGED <<besu_obj, path, differences, renormalized, result,
                 norm_flag, summary_lines>>
  /\ UNCHANGED <<report_lines, differences2, diff_id, diff2_id, rpc_vars>>

\* normalized = normalize_call_trace(geth_obj)
NormalizeCallTrace ==
  /\ pc = "idle"
  /\ normalized' = normalize_call_trace(geth_obj)
  /\ pc' = "normalized"
  /\ UNCHANGED <<geth_obj, besu_obj, path, differences, renormalized, result,
                 norm_flag, summary_lines>>
  /\ UNCHANGED <<report_lines, differences2, diff_id, diff2_id, rpc_vars>>

\* renormalized = normalize_call_trace(normalized)
NormalizeAgain ==
  /\ pc = "normalized"
  /\ renormalized' = normalize_call_trace(normalized)
  /\ pc' = "renormalized"
  /\ UNCHANGED <<geth_obj, besu_obj, path, differences, normalized, result,
                 norm_flag, summary_lines>>
  /\ UNCHANGED <<report_lines, differences2, diff_id, diff2_id, rpc_vars>>

\* result = compare_call_traces(geth_obj, besu_obj, normalize)
CompareCallTraces ==
  /\ pc = "idle"
  /\ \E normalize \in BOOLEAN :
       /\ norm_flag' = normalize
       /\ result' = compare_call_traces(geth_obj, besu_obj, normalize)
  /\ pc' = "done"
  /\ UNCHANGED <<geth_obj, besu_obj, path, differences, normalized, renormalized,
                 summary_lines>>
  /\ UNCHANGED <<report_lines, differences2, diff_id, diff2_id, rpc_vars>>

\* variant: summary() cuts the list of the result down to what it displays
Summary_truncating ==
  /\ pc = "done"
  /\ summary_lines' = summary(result)
  /\ result' = [result EXCEPT !.differences = Prefix(@, DisplayLimit)]
  /\ pc' = "done"
  /\ UNCHANGED <<geth_obj, besu_obj, path, differences, normalized, renormalized,
                 norm_flag>>
  /\ UNCHANGED <<report_lines, differences2, diff_id, diff2_id, rpc_vars>>

\* summary_lines = result.summary()
Summary ==
  /\ pc = "done"
  /\ summary_lines' = summary(result)
  /\ pc' = "done"
  /\ UNCHANGED <<geth_obj, besu_obj, path, differences, normalized, renormalized, result,
                 norm_flag>>
  /\ UNCHANGED <<report_lines, differences2, diff_id, diff2_id, rpc_vars>>

\* report_lines = result.detailed_report()
DetailedReport ==
  /\ pc = "done"
  /\ report_lines' = detailed_report(result)
  /\ pc' = "done"
  /\ UNCHANGED <<geth_obj, besu_obj, path, differences, normalized, renormalized, result,
                 norm_flag, summary_lines, differences2, diff_id, diff2_id, rpc_vars>>

Next ==
  \/ CompareJsonRecursive
  \/ NormalizeCallTrace
  \/ NormalizeAgain
  \/ CompareAgain
  \/ CompareCallTraces
  \/ Summary
  \/ DetailedReport

Spec == Init /\ [][Next]_vars

TypeOK == pc \in {"idle", "compared", "compared_again", "normalized", "renormalized", "done"}

(***************************************************************************)
(* Properties.                                                             *)
(***************************************************************************)
Compared == pc = "compared"

\* a record with the roles of the two sides exchanged
Mirror(d) ==
  DiffResult(d.path, d.besu_value, d.geth_value,
             CASE d.diff_type = "missing_in_geth" -> "missing_in_besu"
               [] d.diff_type = "missing_in_besu" -> "missing_in_geth"
               [] OTHER -> d.diff_type)

\* C1: comparing a well-formed tree with itself yields an empty difference
\* list.
C1_Reflexivity == (Compared /\ geth_obj = besu_obj) => differences = <<>>

C1_Witness == Compared /\ geth_obj = besu_obj /\ geth_obj \in DeepFrames

\* C2: compare(A, B) and compare(B, A) have equal length and their records
\* correspond one to one, in order: same path, missing_in_geth exchanged
\* with missing_in_besu, value_mismatch and type_mismatch kept, and the two
\* values swapped.
C2_Symmetry ==
  Compared =>
    LET reversed == compare_json_recursive(besu_obj, geth_obj, path, <<>>) IN
    /\ Len(reversed) = Len(differences)
    /\ \A i \in DOMAIN differences : reversed[i] = Mirror(differences[i])

C2_Witness ==
  /\ Compared
  /\ \E i, j \in DOMAIN differences :
       /\ differences[i].diff_type = "missing_in_geth"
       /\ differences[j].diff_type = "value_mismatch"

\* the categories of the data model
Category(x) ==
  CASE x.t = "NoneType" -> "null"
    [] x.t = "bool" -> "boolean"
    [] x.t \in {"int", "float"} -> "number"
    [] x.t = "str" -> "string"
    [] x.t = "list" -> "sequence"
    [] x.t = "dict" -> "mapping"

\* the textual form of a number or a string
TextOf(x) ==
  CASE x.t = "str" -> x.v
    [] x.t = "int" -> ToString(x.v)
    [] x.t = "float" -> ToString(x.v \div 10) \o "." \o ToString(x.v % 10)

NumberAndString(g, b) ==
  \/ Category(g) = "number" /\ Category(b) = "string"
  \/ Category(g) = "string" /\ Category(b) = "number"

IntegerAndString(g, b) ==
  \/ g.t = "int" /\ b.t = "str"
  \/ g.t = "str" /\ b.t = "int"

\* the records the lenient rule prescribes for g against b at p
LenientRecords(g, b, p) ==
  IF TextOf(g) = TextOf(b) THEN <<>> ELSE <<DiffResult(p, g, b, "value_mismatch")>>

\* C3 (as stated): a number against a string gives no record when the
\* number's text equals the string and otherwise exactly one value_mismatch
\* with the two original values, never a type_mismatch.
C3_NumberString ==
  (Compared /\ NumberAndString(geth_obj, besu_obj)) =>
    differences = LenientRecords(geth_obj, besu_obj, path)

\* C3 (amended): an integer (int, not bool) against a string gives no record
\* when the integer's text equals the string and otherwise exactly one
\* value_mismatch with the two original values, never a type_mismatch, at
\* the root and below a list index, a mapping key and a nested call frame.
C3_IntegerString ==
  (Compared /\ IntegerAndString(geth_obj, besu_obj)) =>
    /\ differences = LenientRecords(geth_obj, besu_obj, path)
    /\ compare_json_recursive(JList(<<geth_obj>>), JList(<<besu_obj>>), path, <<>>)
         = LenientRecords(geth_obj, besu_obj, path \o "[0]")
    /\ compare_json_recursive(JDict(<<Item("gas", geth_obj)>>),
                              JDict(<<Item("gas", besu_obj)>>), path, <<>>)
         = LenientRecords(geth_obj, besu_obj, path \o ".gas")
    /\ compare_json_recursive(
         JDict(<<Item("calls", JList(<<JDict(<<Item("gas", geth_obj)>>)>>))>>),
         JDict(<<Item("calls", JList(<<JDict(<<Item("gas", besu_obj)>>)>>))>>),
         path, <<>>)
         = LenientRecords(geth_obj, besu_obj, path \o ".calls[0].gas")

C3_Witness ==
  /\ Compared
  /\ geth_obj = JInt(1)
  /\ besu_obj = JStr("1")
  /\ differences = <<>>

\* C4: two non-null values of differing category that are not both in the
\* {number, string} category give exactly one type_mismatch record at the
\* current path with both values, and nothing below it.
C4_TypeMismatch ==
  (/\ Compared
   /\ ~IsNone(geth_obj) /\ ~IsNone(besu_obj)
   /\ Category(geth_obj) # Category(besu_obj)
   /\ ~NumberAndString(geth_obj, besu_obj)) =>
    differences = <<DiffResult(path, geth_obj, besu_obj, "type_mismatch")>>

\* the records the mapping rule prescribes for one key
KeyRecords(g, b, p, key) ==
  IF ~HasKey(g, key)
  THEN <<DiffResult(p \o "." \o key, JNull, Get(b, key), "missing_in_geth")>>
  ELSE IF ~HasKey(b, key)
  THEN <<DiffResult(p \o "." \o key, Get(g, key), JNull, "missing_in_besu")>>
  ELSE compare_json_recursive(Get(g, key), Get(b, key), p \o "." \o key, <<>>)

RECURSIVE AllKeyRecords(_, _, _, _)
AllKeyRecords(g, b, p, keys) ==
  IF keys = <<>> THEN <<>>
  ELSE KeyRecords(g, b, p, Head(keys)) \o AllKeyRecords(g, b, p, Tail(keys))

\* C5: for two mappings at path p the difference list is made, key by key
\* over the union of the key sets, of one missing_in_geth record with the
\* right value (key only on the right), one missing_in_besu record with the
\* left value (key only on the left), or the records of comparing the two
\* values at p.k (key on both sides).
C5_MappingRule ==
  (Compared /\ IsMapping(geth_obj) /\ IsMapping(besu_obj)) =>
    differences =
      AllKeyRecords(geth_obj, besu_obj, path, Sorted(Keys(geth_obj) \cup Keys(besu_obj)))

C5_Witness ==
  /\ Compared
  /\ IsMapping(geth_obj) /\ IsMapping(besu_obj)
  /\ Keys(geth_obj) = {"gas", "x"}
  /\ Keys(besu_obj) = {"gas"}
  /\ Len(differences) = 2

RECURSIVE ElementRecords(_, _, _, _)
\* the records of comparing the elements of g and b pairwise from index i on
ElementRecords(g, b, p, i) ==
  IF i >= Min(PyLen(g), PyLen(b)) THEN <<>>
  ELSE compare_json_recursive(g.v[i + 1], b.v[i + 1], p \o "[" \o ToString(i) \o "]", <<>>)
         \o ElementRecords(g, b, p, i + 1)

LengthRecord(g, b, p) ==
  DiffResult(p \o ".length", JInt(PyLen(g)), JInt(PyLen(b)), "value_mismatch")

\* C6: for two sequences of different lengths at path p there is exactly one
\* record at p.length, a value_mismatch with the two lengths, and every other
\* record comes from an index below the shorter length; for equal lengths
\* there is no record at p.length.
C6_SequenceLength ==
  (Compared /\ IsSequence(geth_obj) /\ IsSequence(besu_obj)) =>
    LET atLength == {i \in DOMAIN differences : differences[i].path = path \o ".length"}
        elements == ElementRecords(geth_obj, besu_obj, path, 0)
    IN IF PyLen(geth_obj) # PyLen(besu_obj)
       THEN /\ Cardinality(atLength) = 1
            /\ \A i \in atLength : differences[i] = LengthRecord(geth_obj, besu_obj, path)
            /\ Len(differences) = Len(elements) + 1
            /\ \A i \in DOMAIN differences \ atLength :
                 \E j \in DOMAIN elements : differences[i] = elements[j]
       ELSE /\ atLength = {}
            /\ differences = elements

C6_Witness ==
  /\ Compared
  /\ IsSequence(geth_obj) /\ IsSequence(besu_obj)
  /\ PyLen(geth_obj) = 1 /\ PyLen(besu_obj) = 2
  /\ Len(differences) = 2

\* C7: two nulls give no record; exactly one null gives exactly one record
\* at the current path, missing_in_geth with the right value when the left
\* is null and missing_in_besu with the left value when the right is null.
C7_NullRule ==
  (Compared /\ (IsNone(geth_obj) \/ IsNone(besu_obj))) =>
    differences =
      IF IsNone(geth_obj) /\ IsNone(besu_obj) THEN <<>>
      ELSE IF IsNone(geth_obj)
      THEN <<DiffResult(path, JNull, besu_obj, "missing_in_geth")>>
      ELSE <<DiffResult(path, geth_obj, JNull, "missing_in_besu")>>

C7_Witness ==
  /\ Compared
  /\ IsNone(geth_obj)
  /\ besu_obj \in DeepFrames
  /\ Len(differences) = 1

IsScalar(x) == x.t \in {"bool", "int", "float", "str"}

\* equality of two scalars of one category
ScalarEqual(g, b) ==
  IF Category(g) = "number" /\ g.t # b.t
  THEN (IF g.t = "int" THEN 10 * g.v = b.v ELSE g.v = 10 * b.v)
  ELSE g = b

\* C8 (as stated): two non-null scalars of the same category give exactly
\* one value_mismatch record at the current path iff they are not equal, and
\* no record otherwise.
C8_ScalarCategory ==
  (/\ Compared
   /\ IsScalar(geth_obj) /\ IsScalar(besu_obj)
   /\ Category(geth_obj) = Category(besu_obj)) =>
    differences =
      IF ScalarEqual(geth_obj, besu_obj) THEN <<>>
      ELSE <<DiffResult(path, geth_obj, besu_obj, "value_mismatch")>>

\* C8 (amended): two non-null scalars of the same type (both bool, both int,
\* both float or both str) give exactly one value_mismatch record at the
\* current path iff they are not equal, and no record otherwise.
C8_ScalarType ==
  (/\ Compared
   /\ IsScalar(geth_obj) /\ IsScalar(besu_obj)
   /\ TypeOf(geth_obj) = TypeOf(besu_obj)) =>
    differences =
      IF geth_obj.v = besu_obj.v THEN <<>>
      ELSE <<DiffResult(path, geth_obj, besu_obj, "value_mismatch")>>

C8_Witness ==
  /\ Compared
  /\ geth_obj = JFloat(10)
  /\ besu_obj = JFloat(15)
  /\ Len(differences) = 1

\* C9: in every result of compare_call_traces, is_match is true iff the
\* differences list is empty.
C9_IsMatch == pc = "done" => (result.is_match <=> result.differences = <<>>)

C9_Witness ==
  /\ pc = "done"
  /\ result.is_match
  /\ result.geth_normalized # result.besu_normalized

\* C10: normalizing a normalized tree changes nothing.
C10_Idempotence == pc = "renormalized" => renormalized = normalized

C10_Witness ==
  /\ pc = "renormalized"
  /\ geth_obj \in DeepFrames
  /\ normalized # geth_obj
  /\ HasKey(normalized, "calls")

Normalized == pc = "normalized"

AllKeys == {KeyOrder[i] : i \in DOMAIN KeyOrder}

\* the mapping m without key, and with key mapped to null (put last or first)
WithoutKey(m, key) == JDict(SelectSeq(m.v, LAMBDA it : it.k # key))
WithNullLast(m, key) == JDict(Append(WithoutKey(m, key).v, Item(key, JNull)))
WithNullFirst(m, key) == JDict(<<Item(key, JNull)>> \o WithoutKey(m, key).v)

\* C11: a mapping without key k and the same mapping with k mapped to null
\* normalize to the same result, and that result has no key k.
C11_NullAbsence ==
  (Normalized /\ IsMapping(geth_obj)) =>
    \A key \in AllKeys :
      IF ~HasKey(geth_obj, key)
      THEN /\ normalize_call_trace(WithNullLast(geth_obj, key)) = normalized
           /\ normalize_call_trace(WithNullFirst(geth_obj, key)) = normalized
           /\ ~HasKey(normalized, key)
      ELSE IsNone(Get(geth_obj, key)) =>
             /\ normalize_call_trace(WithoutKey(geth_obj, key)) = normalized
             /\ ~HasKey(normalized, key)

C11_Witness ==
  /\ Normalized
  /\ IsMapping(geth_obj)
  /\ HasKey(geth_obj, "gas")
  /\ IsNone(Get(geth_obj, "gas"))
  /\ HasKey(normalized, "to")

Done == pc = "done"

Recognized == {fields[i] : i \in DOMAIN fields}

RECURSIVE StripNoise(_)
RECURSIVE StripItems(_)
RECURSIVE StripElems(_)

\* x without its noise: null-valued fields, fields outside the recognized
\* list and empty calls lists, in the frame and in the frames under calls;
\* everything else is kept as it is and where it is
StripNoise(x) == IF x.t # "dict" THEN x ELSE JDict(StripItems(x.v))

StripElems(elems) ==
  IF elems = <<>> THEN <<>> ELSE <<StripNoise(Head(elems))>> \o StripElems(Tail(elems))

StripItems(items) ==
  IF items = <<>> THEN <<>>
  ELSE LET it == Head(items)
           rest == StripItems(Tail(items)) IN
       IF IsNone(it.v) \/ it.k \notin Recognized \/ (it.k = "calls" /\ it.v = JList(<<>>))
       THEN rest
       ELSE IF it.k = "calls" /\ it.v.t = "list"
       THEN <<Item("calls", JList(StripElems(it.v.v)))>> \o rest
       ELSE <<it>> \o rest

\* C12: with normalize = true, two call frames that differ only by noise
\* (null-valued fields, unrecognized fields, an empty calls list against an
\* absent calls key), at the root or in a frame nested under calls, match.
C12_NoiseRemoval ==
  (/\ Done /\ norm_flag
   /\ IsMapping(geth_obj) /\ IsMapping(besu_obj)
   /\ StripNoise(geth_obj) = StripNoise(besu_obj)) =>
    result.is_match

C12_Witness ==
  /\ Done /\ norm_flag
  /\ geth_obj = JDict(<<Item("calls", JList(<<JDict(<<Item("gas", JNull)>>)>>))>>)
  /\ besu_obj = JDict(<<Item("calls", JList(<<JDict(<<>>)>>))>>)
  /\ result.is_match

\* the keys of a mapping in insertion order
KeySeq(m) == [i \in DOMAIN m.v |-> m.v[i].k]

\* C13: for a mapping input the result is a mapping whose keys are
\* recognized fields in the fixed order of the field list, whatever the key
\* order of the input; every kept field other than calls has exactly the
\* input's value.
C13_FieldSelection ==
  (Normalized /\ IsMapping(geth_obj)) =>
    /\ IsMapping(normalized)
    /\ KeySeq(normalized) = SelectSeq(fields, LAMBDA f : f \in Keys(normalized))
    /\ \A i \in DOMAIN normalized.v :
         normalized.v[i].k # "calls" =>
           /\ HasKey(geth_obj, normalized.v[i].k)
           /\ normalized.v[i].v = Get(geth_obj, normalized.v[i].k)

C13_Witness ==
  /\ Normalized
  /\ geth_obj = JDict(<<Item("gas", JInt(1)), Item("to", JStr(""))>>)
  /\ normalized = JDict(<<Item("to", JStr("")), Item("gas", JInt(1))>>)

\* an empty string, an empty sequence or an empty mapping
IsEmpty(x) == x \in {JStr(""), JList(<<>>), JDict(<<>>)}

\* C14: in the mapping returned by normalize_call_trace a field is present
\* only if the input has it with a value that is neither null nor empty; no
\* field of the output has a null or an empty value.
C14_NoNullOrEmpty ==
  (Normalized /\ IsMapping(geth_obj)) =>
    \A i \in DOMAIN normalized.v :
      LET key == normalized.v[i].k IN
      /\ HasKey(geth_obj, key)
      /\ ~IsNone(Get(geth_obj, key)) /\ ~IsEmpty(Get(geth_obj, key))
      /\ ~IsNone(normalized.v[i].v) /\ ~IsEmpty(normalized.v[i].v)

\* the frames among the elements of a list have recognized keys only and no
\* null-valued field
CleanFrames(elems) ==
  \A i \in DOMAIN elems :
    IsMapping(elems[i]) =>
      /\ Keys(elems[i]) \subseteq Recognized
      /\ \A j \in DOMAIN elems[i].v : ~IsNone(elems[i].v[j].v)

\* C15: a non-empty calls list of the input gives a calls list of the same
\* length whose i-th element is the normalized i-th call, so that the frames
\* under calls, and those under their calls, are normalized too; an empty
\* calls list gives no calls key.
C15_Calls ==
  (Normalized /\ IsMapping(geth_obj) /\ HasKey(geth_obj, "calls")
     /\ IsSequence(Get(geth_obj, "calls"))) =>
    LET calls == Get(geth_obj, "calls") IN
    IF PyLen(calls) = 0 THEN ~HasKey(normalized, "calls")
    ELSE /\ HasKey(normalized, "calls")
         /\ IsSequence(Get(normalized, "calls"))
         /\ PyLen(Get(normalized, "calls")) = PyLen(calls)
         /\ CleanFrames(Get(normalized, "calls").v)
         /\ \A i \in DOMAIN calls.v :
              LET out == Get(normalized, "calls").v[i] IN
              /\ out = normalize_call_trace(calls.v[i])
              /\ (IsMapping(out) /\ HasKey(out, "calls")) =>
                   CleanFrames(Get(out, "calls").v)

C15_Witness ==
  /\ Normalized
  /\ geth_obj \in DeepFrames
  /\ HasKey(normalized, "calls")
  /\ HasKey(Get(normalized, "calls").v[1], "calls")
  /\ normalized # geth_obj

\* C16: normalize_call_trace and compare_call_traces leave their inputs as
\* they were: a call of either changes neither of the two input trees, and
\* normalizing a normalized tree leaves that tree as it was.
C16_InputsUnchanged ==
  [][/\ (pc = "idle" /\ pc' \in {"normalized", "done"}) =>
          (geth_obj' = geth_obj /\ besu_obj' = besu_obj)
     /\ (pc = "normalized" /\ pc' = "renormalized") =>
          (normalized' = normalized /\ geth_obj' = geth_obj)]_vars

C16_Witness ==
  /\ Done /\ norm_flag
  /\ geth_obj \in DeepFrames
  /\ result.geth_normalized # geth_obj
  /\ result.besu_normalized # besu_obj

\* C17: with normalize = true the returned trees are the normalized inputs,
\* with normalize = false they are the inputs themselves; in both cases the
\* differences are those of comparing the two returned trees from "root".
C17_FlagSelectsTrees ==
  Done =>
    /\ result.geth_normalized =
         (IF norm_flag THEN normalize_call_trace(geth_obj) ELSE geth_obj)
    /\ result.besu_normalized =
         (IF norm_flag THEN normalize_call_trace(besu_obj) ELSE besu_obj)
    /\ result.differences =
         compare_json_recursive(result.geth_normalized, result.besu_normalized, "root", <<>>)

C17_Witness ==
  /\ Done /\ ~norm_flag
  /\ geth_obj = JDict(<<Item("calls", JList(<<>>))>>)
  /\ besu_obj = JDict(<<>>)
  /\ ~result.is_match
  /\ result.geth_normalized = geth_obj

RECURSIVE Canon(_)
\* the tree x with the items of every mapping put in sorted key order: two
\* trees are equal as trees iff their Canon is the same
Canon(x) ==
  IF x.t = "dict"
  THEN LET ks == Sorted(Keys(x)) IN
       JDict([i \in DOMAIN ks |-> Item(ks[i], Canon(Get(x, ks[i])))])
  ELSE IF x.t = "list"
  THEN JList([i \in DOMAIN x.v |-> Canon(x.v[i])])
  ELSE x

CanonDiffs(diffs) ==
  [i \in DOMAIN diffs |->
     DiffResult(diffs[i].path, Canon(diffs[i].geth_value), Canon(diffs[i].besu_value),
                diffs[i].diff_type)]

\* C18: the difference list does not depend on the insertion order of the
\* mapping keys: it is, record by record and in the same order, the list
\* obtained from the same two trees with every mapping in sorted key order.
C18_OrderDeterminism ==
  Compared =>
    CanonDiffs(differences) =
      CanonDiffs(compare_json_recursive(Canon(geth_obj), Canon(besu_obj), path, <<>>))

C18_Witness ==
  /\ Compared
  /\ IsMapping(geth_obj) /\ IsMapping(besu_obj)
  /\ KeySeq(geth_obj) = <<"x", "gas">>
  /\ KeySeq(besu_obj) = <<"gas", "x">>
  /\ Len(differences) = 2
  /\ differences[1].path = path \o ".gas"
  /\ differences[2].path = path \o ".x"

\* a location in a tree: a sequence of mapping keys and sequence indices,
\* possibly ended by the length of a sequence
KeySeg(key) == [s |-> "key", k |-> key, i |-> 0]
IndexSeg(i) == [s |-> "index", k |-> "", i |-> i]
LengthSeg == [s |-> "length", k |-> "", i |-> 0]

RECURSIVE Locations(_)
Locations(x) ==
  {<<>>} \cup
    (IF x.t = "dict"
     THEN UNION {{<<KeySeg(key)>> \o l : l \in Locations(Get(x, key))} : key \in Keys(x)}
     ELSE IF x.t = "list"
     THEN {<<LengthSeg>>} \cup
            UNION {{<<IndexSeg(i - 1)>> \o l : l \in Locations(x.v[i])} : i \in DOMAIN x.v}
     ELSE {})

RenderSeg(seg) ==
  CASE seg.s = "key" -> "." \o seg.k
    [] seg.s = "index" -> "[" \o ToString(seg.i) \o "]"
    [] seg.s = "length" -> ".length"

RECURSIVE RenderPath(_)
RenderPath(loc) == IF loc = <<>> THEN "" ELSE RenderSeg(Head(loc)) \o RenderPath(Tail(loc))

RECURSIVE ValueAt(_, _)
\* the value found in x at a location; null where x has nothing there
ValueAt(x, loc) ==
  IF loc = <<>> THEN x
  ELSE LET seg == Head(loc) IN
       CASE seg.s = "key" ->
              IF x.t = "dict" /\ HasKey(x, seg.k) THEN ValueAt(Get(x, seg.k), Tail(loc))
              ELSE JNull
         [] seg.s = "index" ->
              IF x.t = "list" /\ seg.i < PyLen(x) THEN ValueAt(x.v[seg.i + 1], Tail(loc))
              ELSE JNull
         [] seg.s = "length" ->
              IF x.t = "list" /\ Tail(loc) = <<>> THEN JInt(PyLen(x)) ELSE JNull

ScenarioGeth ==
  JDict(<<Item("type", JStr("CALL")),
          Item("calls", JList(<<JDict(<<Item("gasUsed", JStr("0x5208"))>>)>>))>>)
ScenarioBesu ==
  JDict(<<Item("type", JStr("CALL")),
          Item("calls", JList(<<JDict(<<Item("gasUsed", JStr("0x5209"))>>)>>))>>)

\* C19: every record of a result of compare_call_traces has the path "root"
\* followed by the segments (.key, [i], a final .length) of a location of the
\* compared trees, and its two values are the values of the two trees at
\* that location; a single differing gasUsed in the first nested call gives
\* exactly one value_mismatch at root.calls[0].gasUsed with the two values.
C19_Paths ==
  Done =>
    /\ \A n \in DOMAIN result.differences :
         LET d == result.differences[n] IN
         \E loc \in Locations(result.geth_normalized) \cup Locations(result.besu_normalized) :
           /\ d.path = "root" \o RenderPath(loc)
           /\ d.geth_value = ValueAt(result.geth_normalized, loc)
           /\ d.besu_value = ValueAt(result.besu_normalized, loc)
    /\ compare_call_traces(ScenarioGeth, ScenarioBesu, norm_flag).differences =
         <<DiffResult("root.calls[0].gasUsed", JStr("0x5208"), JStr("0x5209"),
                      "value_mismatch")>>

C19_Witness ==
  /\ Done
  /\ \E n \in DOMAIN result.differences :
       /\ result.differences[n].path = "root.calls[0].calls[0].gas"
       /\ result.differences[n].diff_type = "missing_in_besu"

Summarized == Done /\ summary_lines # <<>>

DiffTypes == {"missing_in_besu", "missing_in_geth", "value_mismatch", "type_mismatch"}

\* the records of one kind, in the order of the differences list
OfKind(dt) == SelectSeq(result.differences, LAMBDA d : d.diff_type = dt)

\* the number of lines of the group of n records
GroupSize(n) ==
  IF n = 0 THEN 0
  ELSE 1 + Min(n, DisplayLimit) + (IF n > DisplayLimit THEN 1 ELSE 0)

\* C20: summary() is a single line for a match; otherwise it is a header
\* with the total number of differences followed by one group per kind that
\* occurs, a group of n records being its heading, the first min(n, 10)
\* records of the kind in the order of the list, and an overflow line
\* stating n - 10 more iff n > 10.
C20_Summary ==
  Summarized =>
    IF result.is_match THEN summary_lines = <<PassLine>>
    ELSE /\ summary_lines[1] = HeaderLine(Len(result.differences))
         /\ Len(summary_lines) =
              1 + GroupSize(Len(OfKind("missing_in_besu")))
                + GroupSize(Len(OfKind("missing_in_geth")))
                + GroupSize(Len(OfKind("value_mismatch")))
                + GroupSize(Len(OfKind("type_mismatch")))
         /\ \A dt \in DiffTypes :
              LET recs == OfKind(dt)
                  n == Len(recs)
                  heads == {j \in DOMAIN summary_lines :
                              summary_lines[j].line = "group" /\ summary_lines[j].diff_type = dt}
              IN IF n = 0 THEN heads = {}
                 ELSE /\ Cardinality(heads) = 1
                      /\ \A j \in heads :
                           /\ summary_lines[j] = GroupLine(dt, n)
                           /\ \A m \in 1..Min(n, DisplayLimit) :
                                summary_lines[j + m] = DiffLine(recs[m])
                           /\ IF n > DisplayLimit
                              THEN summary_lines[j + DisplayLimit + 1] = MoreLine(n - DisplayLimit)
                              ELSE \/ j + n = Len(summary_lines)
                                   \/ summary_lines[j + n + 1].line = "group"

C20_Witness ==
  /\ Summarized
  /\ Len(OfKind("missing_in_geth")) = DisplayLimit + 1
  /\ Len(OfKind("value_mismatch")) = 1
  /\ summary_lines[Len(summary_lines)] = MoreLine(1)

Reported == Done /\ report_lines # <<>>

\* C21: reporting is read-only: a call to summary() or detailed_report()
\* leaves the differences list of the result (the same records in the same
\* order) and its is_match as they were, also when the summary displays
\* only the first 10 records of a kind.
C21_ReportingReadOnly ==
  [][(pc = "done" /\ pc' = "done") =>
       /\ result'.differences = result.differences
       /\ result'.is_match = result.is_match]_vars

C21_Witness ==
  /\ Summarized
  /\ Reported
  /\ Len(result.differences) > DisplayLimit
  /\ ~result.is_match

\* the lines of the i-th entry of the detailed report
EntryLines(i) == SubSeq(report_lines, 5 + 6 * (i - 1) + 1, 5 + 6 * i)

\* C22: detailed_report() never truncates: for a result with n >= 1
\* differences the report is its five header lines, stating the total n,
\* followed by exactly n entries numbered 1..n in the order of the list,
\* entry i showing the path, the kind and both values of record i; n may
\* exceed the display limit of the summary.
C22_DetailedNeverTruncates ==
  (Reported /\ Len(result.differences) >= 1) =>
    LET n == Len(result.differences) IN
    /\ Len(report_lines) = 5 + 6 * n
    /\ report_lines[4] = TotalLine(n)
    /\ {j \in DOMAIN report_lines : report_lines[j].line = "number"}
         = {5 + 6 * (i - 1) + 1 : i \in 1..n}
    /\ \A i \in 1..n :
         LET d == result.differences[i]
             e == EntryLines(i) IN
         /\ e[1] = NumberLine(i)
         /\ e[2] = PathLine(d.path)
         /\ e[3] = TypeLine(d.diff_type)
         /\ e[4].line = "geth" /\ e[4].shown.value = d.geth_value
         /\ e[5].line = "besu" /\ e[5].shown.value = d.besu_value

C22_Witness ==
  /\ Reported
  /\ Len(result.differences) = DisplayLimit + 2
  /\ EntryLines(DisplayLimit + 2)[1] = NumberLine(DisplayLimit + 2)
  /\ EntryLines(DisplayLimit + 2)[2] = PathLine("root[11]")

\* two strings that normalize_hex_value would make equal
HexAlike(a, b) ==
  /\ a.t = "str" /\ b.t = "str"
  /\ a # b
  /\ normalize_hex_value(a) = normalize_hex_value(b)

\* C23: hex strings are opaque: compare_call_traces applies neither
\* normalize_hex_value nor deep_normalize_hex, whatever the normalize flag,
\* so two hex strings that differ only in leading zeros ("0x00" and "0x0"),
\* compared alone or as the same field of two call frames, give exactly one
\* value_mismatch record at their path, holding the two strings as given.
C23_HexOpaque ==
  Done =>
    /\ HexAlike(geth_obj, besu_obj) =>
         result.differences = <<DiffResult("root", geth_obj, besu_obj, "value_mismatch")>>
    /\ \A key \in {"value"} :
         (/\ IsMapping(geth_obj) /\ IsMapping(besu_obj)
          /\ Keys(geth_obj) = {key} /\ Keys(besu_obj) = {key}
          /\ HexAlike(Get(geth_obj, key), Get(besu_obj, key))) =>
           result.differences =
             <<DiffResult("root." \o key, Get(geth_obj, key), Get(besu_obj, key),
                          "value_mismatch")>>

C23_Witness ==
  /\ Done
  /\ norm_flag
  /\ geth_obj = JDict(<<Item("value", JStr("0x00"))>>)
  /\ besu_obj = JDict(<<Item("value", JStr("0x0"))>>)
  /\ result.differences =
       <<DiffResult("root.value", JStr("0x00"), JStr("0x0"), "value_mismatch")>>

ComparedAgain == pc = "compared_again"

\* C24: accumulator independence: the list returned by a second invocation
\* of compare_json_recursive without a differences argument is a list of
\* its own, holding exactly the records of its own walk, and the list the
\* first invocation returned still holds exactly the records of the first
\* walk after the second invocation.
C24_AccumulatorIndependence ==
  ComparedAgain =>
    /\ diff2_id # diff_id
    /\ differences2 = compare_json_recursive(besu_obj, geth_obj, path, <<>>)
    /\ differences = compare_json_recursive(geth_obj, besu_obj, path, <<>>)

C24_Witness ==
  /\ ComparedAgain
  /\ Len(differences) = 2
  /\ Len(differences2) = 2
  /\ differences[1].diff_type = "missing_in_besu"
  /\ differences2[1].diff_type = "missing_in_geth"

\* C25: a length mismatch does not end the comparison of two sequences:
\* the p.length record comes first and is followed by the records of every
\* index below the shorter length, each compared at p[i], in index order.
C25_NoShortCircuit ==
  (/\ Compared
   /\ IsSequence(geth_obj) /\ IsSequence(besu_obj)
   /\ PyLen(geth_obj) # PyLen(besu_obj)) =>
    /\ Len(differences) >= 1
    /\ differences[1] = LengthRecord(geth_obj, besu_obj, path)
    /\ Tail(differences) = ElementRecords(geth_obj, besu_obj, path, 0)
    /\ \A i \in 0..(Min(PyLen(geth_obj), PyLen(besu_obj)) - 1) :
         LET at == path \o "[" \o ToString(i) \o "]" IN
         SelectSeq(differences, LAMBDA d : d.path = at)
           = SelectSeq(compare_json_recursive(geth_obj.v[i + 1], besu_obj.v[i + 1], at, <<>>),
                       LAMBDA d : d.path = at)

C25_Witness ==
  /\ Compared
  /\ path = "root.calls[0]"
  /\ IsSequence(geth_obj) /\ IsSequence(besu_obj)
  /\ PyLen(geth_obj) = DisplayLimit /\ PyLen(besu_obj) = DisplayLimit + 2
  /\ Len(differences) = DisplayLimit + 1
  /\ differences[1].path = "root.calls[0].length"
  /\ differences[2].path = "root.calls[0][0]"
  /\ differences[DisplayLimit + 1].path = "root.calls[0][9]"

\* C26: pass-through: normalize_call_trace returns every input that is not
\* a mapping (null, boolean, number, string, sequence) unchanged; a sequence
\* of call frames given directly keeps its frames as they are.
C26_PassThrough ==
  (Normalized /\ ~IsMapping(geth_obj)) => normalized = geth_obj

C26_Witness ==
  /\ Normalized
  /\ geth_obj = JList(<<JDict(<<Item("x", JInt(1))>>)>>)
  /\ normalize_call_trace(geth_obj.v[1]) = JDict(<<>>)
  /\ normalized = geth_obj

\* the keys of the model that contain "." or "["
PathLikeKeys == {"gas.x"}

RECURSIVE PlainKeys(_)
\* no key of the tree contains "." or "["
PlainKeys(x) ==
  IF x.t = "dict"
  THEN \A i \in DOMAIN x.v : x.v[i].k \notin PathLikeKeys /\ PlainKeys(x.v[i].v)
  ELSE IF x.t = "list" THEN \A i \in DOMAIN x.v : PlainKeys(x.v[i])
  ELSE TRUE

DistinctPaths(diffs) ==
  \A i, j \in DOMAIN diffs : i # j => diffs[i].path # diffs[j].path

\* C27 (as stated): in the list returned by one walk over well-formed trees
\* no two records have the same path.
C27_DistinctPaths == Compared => DistinctPaths(differences)

\* C27 (amended): in the list returned by one walk over well-formed trees
\* none of whose mapping keys contains "." or "[", no two records have the
\* same path.
C27_DistinctPathsPlainKeys ==
  (Compared /\ PlainKeys(geth_obj) /\ PlainKeys(besu_obj)) => DistinctPaths(differences)

C27_Witness ==
  /\ Compared
  /\ PlainKeys(geth_obj) /\ PlainKeys(besu_obj)
  /\ IsMapping(geth_obj) /\ IsMapping(besu_obj)
  /\ Keys(geth_obj) = {"gas", "x"} /\ Keys(besu_obj) = {"gas", "x"}
  /\ Len(differences) = 2
  /\ differences[1].path = path \o ".gas"
  /\ differences[2].path = path \o ".x"

\* C28: in every record of a walk, the present side of a missing record is
\* non-null: a missing_in_geth record has geth_value null and besu_value
\* non-null, a missing_in_besu record has besu_value null and geth_value
\* non-null, also when a key is present with a null value on one side and
\* absent on the other.
C28_PresentSideNonNull ==
  Compared =>
    \A i \in DOMAIN differences :
      LET d == differences[i] IN
      /\ d.diff_type = "missing_in_geth" => (IsNone(d.geth_value) /\ ~IsNone(d.besu_value))
      /\ d.diff_type = "missing_in_besu" => (IsNone(d.besu_value) /\ ~IsNone(d.geth_value))

(***************************************************************************)
(* src/call_tracer_tests.py: EthereumRPCClient.wait_for_transaction and    *)
(* run_scenario.  They run under specifications of their own, in which     *)
(* the comparison harness is at rest.                                      *)
(***************************************************************************)
\* the largest max_attempts of the calls of wait_for_transaction explored
MaxAttempts == 4

\* max_attempts=60 of the two calls in run_scenario
ScenarioAttempts == 60

CmpIdle ==
  /\ pc = "idle"
  /\ geth_obj = JNull
  /\ besu_obj = JNull
  /\ path = "root"
  /\ differences = <<>>
  /\ normalized = JNull
  /\ renormalized = JNull
  /\ result = NoResult
  /\ norm_flag = FALSE
  /\ summary_lines = <<>>
  /\ report_lines = <<>>
  /\ differences2 = <<>>
  /\ diff_id = 0
  /\ diff2_id = 0

\* what one eth_getTransactionByHash call can do: answer with the
\* transaction, answer with a null result, or raise (transport error, HTTP
\* error status, RPC error)
LookupOutcomes == {"tx", "null", "raises"}

\* the Optional returned: the transaction, or None for a null result and
\* for any exception of the call
get_transaction_by_hash(outcome) ==
  IF outcome = "tx" THEN <<"tx">> ELSE <<>>

\* the frame of a call wait_for_transaction(tx_hash, max_attempts): the
\* number of lookups made so far and the value returned
wait_start(max_attempts) ==
  [max_attempts |-> max_attempts, lookups |-> 0, ret |-> "running"]

\* variant: one iteration more than max_attempts
has_next_inclusive(w) == w.lookups <= w.max_attempts

\* for _ in range(max_attempts): another iteration is left
has_next(w) == w.lookups < w.max_attempts

\* one iteration: the lookup, return True if it found the transaction,
\* sleep otherwise
lookup(w, outcome) ==
  IF get_transaction_by_hash(outcome) # <<>>
  THEN [w EXCEPT !.lookups = @ + 1, !.ret = "True"]
  ELSE [w EXCEPT !.lookups = @ + 1]

\* return False after the loop
timeout(w) == [w EXCEPT !.ret = "False"]

ScenarioIdle ==
  /\ s_pc = "off"
  /\ verbose = FALSE
  /\ tx_hash = <<>>
  /\ waited = <<>>
  /\ geth_response = <<>>
  /\ besu_response = <<>>
  /\ exception = <<>>
  /\ test_result = <<>>

WaitInit ==
  /\ CmpIdle
  /\ ScenarioIdle
  /\ wait \in {wait_start(m) : m \in 0..MaxAttempts}
  /\ lookup_log = <<>>

\* one iteration of the loop of wait_for_transaction
WaitLookup ==
  /\ wait.ret = "running"
  /\ has_next(wait)
  /\ \E outcome \in LookupOutcomes :
       /\ wait' = lookup(wait, outcome)
       /\ lookup_log' = Append(lookup_log, outcome)
  /\ UNCHANGED <<cmp_vars, s_pc, verbose, tx_hash, waited, geth_response, besu_response,
                 exception, test_result>>

\* the loop is exhausted
WaitTimeout ==
  /\ wait.ret = "running"
  /\ ~has_next(wait)
  /\ wait' = timeout(wait)
  /\ UNCHANGED <<cmp_vars, lookup_log, s_pc, verbose, tx_hash, waited, geth_response,
                 besu_response, exception, test_result>>

WaitNext ==
  \/ WaitLookup
  \/ WaitTimeout

\* the loop is sequential code whose calls end: requests.post has a timeout
\* and time.sleep returns
WaitSpec == WaitInit /\ [][WaitNext]_vars /\ WF_vars(WaitNext)

WaitReturned == wait.ret \in {"True", "False"}

\* what holds of a call of wait_for_transaction at every moment
C29_Lookups ==
  LET n == Len(lookup_log) IN
  /\ wait.lookups = n
  /\ n <= wait.max_attempts
  /\ \A i \in 1..(n - 1) : lookup_log[i] # "tx"
  /\ wait.ret = "True" <=> (n >= 1 /\ lookup_log[n] = "tx")
  /\ wait.ret = "False" =>
       /\ n = wait.max_attempts
       /\ \A i \in 1..n : lookup_log[i] \in {"null", "raises"}

\* C29: wait_for_transaction(tx_hash, max_attempts) terminates after at most
\* max_attempts lookups: it returns True at the first lookup that finds the
\* transaction, with no lookup after it, and returns False only after
\* exactly max_attempts lookups that all failed, a lookup that raises
\* counting as not found.
C29_WaitTerminates == []C29_Lookups /\ <>WaitReturned

C29_Witness ==
  /\ wait.max_attempts = 3
  /\ wait.ret = "False"
  /\ lookup_log = <<"null", "raises", "null">>

(***************************************************************************)
(* run_scenario.  Each step of its try block either completes or raises;   *)
(* an exception is a record of its class and message.                      *)
(***************************************************************************)
Exc(class, message) == [class |-> class, message |-> message]

\* what the steps raise: subprocess.run on its timeout, extract_tx_hash,
\* the two timeouts, EthereumRPCClient.call, open() and the .get of a
\* result that is not a dict; all are subclasses of Exception
ScriptTimeout == Exc("TimeoutExpired", "Command timed out after 120 seconds")
NoTxHash == Exc("ValueError", "Could not extract transaction hash from output")
NotIndexed(client) ==
  Exc("RuntimeError",
      IF client = "besu" THEN "Transaction not indexed by Besu within timeout"
      ELSE "Transaction not indexed by Geth within timeout")
RpcError == Exc("RuntimeError", "RPC error")
WriteError == Exc("OSError", "No such file or directory")
NoGet == Exc("AttributeError", "'NoneType' object has no attribute 'get'")

\* variant: except RuntimeError
caught_runtime_error(e) == e.class = "RuntimeError"

\* except Exception
caught(e) ==
  e.class \in {"TimeoutExpired", "ValueError", "RuntimeError", "OSError", "AttributeError"}

TestResult(passed, hash, comparison, error_message, geth, besu) ==
  [passed |-> passed, tx_hash |-> hash, comparison |-> comparison,
   error_message |-> error_message, geth_response |-> geth, besu_response |-> besu]

\* the answers of debug_traceTransaction: without a result, with a null
\* result, with a call frame
ScenarioTraces ==
  {JNull, JDict(<<>>), JDict(<<Item("gas", JInt(1))>>),
   JDict(<<Item("gas", JInt(1)), Item("x", JNull)>>), JDict(<<Item("gas", JStr("0x1"))>>)}
Responses == {[result |-> <<>>]} \cup {[result |-> <<t>>] : t \in ScenarioTraces}

\* response.get('result', {})
result_of(response) ==
  IF response.result = <<>> THEN JDict(<<>>) ELSE response.result[1]

TxHash == "0xhash"

ScenarioInit ==
  /\ CmpIdle
  /\ wait = NoWait
  /\ lookup_log = <<>>
  /\ s_pc = "run_script"
  /\ verbose \in BOOLEAN
  /\ tx_hash = <<>>
  /\ waited = <<>>
  /\ geth_response = <<>>
  /\ besu_response = <<>>
  /\ exception = <<>>
  /\ test_result = <<>>

\* raise e inside the try block
Raise(e) ==
  /\ exception' = <<e>>
  /\ s_pc' = "except"

\* a call client.wait_for_transaction(tx_hash, max_attempts=60) begins
StartWait(client, before) ==
  /\ wait' = wait_start(ScenarioAttempts)
  /\ waited' = Append(before, [client |-> client, ret |-> "running"])

\* the wait of the client that is waited for has returned ret
Returned(ret) == [waited EXCEPT ![Len(waited)].ret = ret]

\* forge_runner.run_script(scenario, besu_client.rpc_url)
RunScript ==
  /\ s_pc = "run_script"
  /\ \/ s_pc' = "extract_tx_hash" /\ UNCHANGED exception
     \/ Raise(ScriptTimeout)
  /\ UNCHANGED <<cmp_vars, wait, lookup_log, verbose, tx_hash, waited, geth_response,
                 besu_response, test_result>>

\* tx_hash = extract_tx_hash(stdout), then the call of the Besu wait
ExtractTxHash ==
  /\ s_pc = "extract_tx_hash"
  /\ \/ /\ tx_hash' = <<TxHash>>
        /\ StartWait("besu", waited)
        /\ s_pc' = "besu_wait"
        /\ UNCHANGED exception
     \/ /\ Raise(NoTxHash)
        /\ UNCHANGED <<tx_hash, wait, waited>>
  /\ UNCHANGED <<cmp_vars, lookup_log, verbose, geth_response, besu_response, test_result>>

\* one iteration of the loop of the wait in progress
ScenarioLookup ==
  /\ s_pc \in {"besu_wait", "geth_wait"}
  /\ wait.ret = "running"
  /\ has_next(wait)
  /\ \E outcome \in LookupOutcomes : wait' = lookup(wait, outcome)
  /\ UNCHANGED <<cmp_vars, lookup_log, s_pc, verbose, tx_hash, waited, geth_response,
                 besu_response, exception, test_result>>

\* the loop of the wait in progress is exhausted
ScenarioTimeout ==
  /\ s_pc \in {"besu_wait", "geth_wait"}
  /\ wait.ret = "running"
  /\ ~has_next(wait)
  /\ wait' = timeout(wait)
  /\ UNCHANGED <<cmp_vars, lookup_log, s_pc, verbose, tx_hash, waited, geth_response,
                 besu_response, exception, test_result>>

\* if not besu_client.wait_for_transaction(...): raise; else the Geth wait
BesuWaitReturns ==
  /\ s_pc = "besu_wait"
  /\ wait.ret \in {"True", "False"}
  /\ IF wait.ret = "True"
     THEN /\ StartWait("geth", Returned("True"))
          /\ s_pc' = "geth_wait"
          /\ UNCHANGED exception
     ELSE /\ Raise(NotIndexed("besu"))
          /\ wait' = NoWait
          /\ waited' = Returned("False")
  /\ UNCHANGED <<cmp_vars, lookup_log, verbose, tx_hash, geth_response, besu_response,
                 test_result>>

\* if not geth_client.wait_for_transaction(...): raise
GethWaitReturns ==
  /\ s_pc = "geth_wait"
  /\ wait.ret \in {"True", "False"}
  /\ waited' = Returned(wait.ret)
  /\ wait' = NoWait
  /\ IF wait.ret = "True"
     THEN s_pc' = "trace_geth" /\ UNCHANGED exception
     ELSE Raise(NotIndexed("geth"))
  /\ UNCHANGED <<cmp_vars, lookup_log, verbose, tx_hash, geth_response, besu_response,
                 test_result>>

\* geth_response = geth_client.debug_trace_transaction(tx_hash)
TraceGeth ==
  /\ s_pc = "trace_geth"
  /\ \/ /\ \E response \in Responses : geth_response' = <<response>>
        /\ s_pc' = "trace_besu"
        /\ UNCHANGED exception
     \/ /\ Raise(RpcError)
        /\ UNCHANGED geth_response
  /\ UNCHANGED <<cmp_vars, wait, lookup_log, verbose, tx_hash, waited, besu_response,
                 test_result>>

\* besu_response = besu_client.debug_trace_transaction(tx_hash)
TraceBesu ==
  /\ s_pc = "trace_besu"
  /\ \/ /\ \E response \in Responses : besu_response' = <<response>>
        /\ s_pc' = "save"
        /\ UNCHANGED exception
     \/ /\ Raise(RpcError)
        /\ UNCHANGED besu_response
  /\ UNCHANGED <<cmp_vars, wait, lookup_log, verbose, tx_hash, waited, geth_response,
                 test_result>>

\* the two raw responses are written to files
SaveResponses ==
  /\ s_pc = "save"
  /\ \/ s_pc' = "quick_comparison" /\ UNCHANGED exception
     \/ Raise(WriteError)
  /\ UNCHANGED <<cmp_vars, wait, lookup_log, verbose, tx_hash, waited, geth_response,
                 besu_response, test_result>>

\* response.get('result', {}).get('gasUsed', 'N/A') and the like, which
\* need each result to be a dict
QuickComparison ==
  /\ s_pc = "quick_comparison"
  /\ IF /\ IsMapping(result_of(geth_response[1]))
        /\ IsMapping(result_of(besu_response[1]))
     THEN s_pc' = "full_comparison" /\ UNCHANGED exception
     ELSE Raise(NoGet)
  /\ UNCHANGED <<cmp_vars, wait, lookup_log, verbose, tx_hash, waited, geth_response,
                 besu_response, test_result>>

\* comparison = compare_call_traces(...), the detailed diff file when there
\* are differences and verbose is set, and return TestResult(...)
FullComparison ==
  /\ s_pc = "full_comparison"
  /\ LET comparison ==
           compare_call_traces(result_of(geth_response[1]), result_of(besu_response[1]),
                               TRUE)
     IN \/ /\ test_result' =
                <<TestResult(comparison.is_match, tx_hash, <<comparison>>, <<>>,
                             geth_response, besu_response)>>
           /\ s_pc' = "returned"
           /\ UNCHANGED exception
        \/ /\ ~comparison.is_match /\ verbose
           /\ Raise(WriteError)
           /\ UNCHANGED test_result
  /\ UNCHANGED <<cmp_vars, wait, lookup_log, verbose, tx_hash, waited, geth_response,
                 besu_response>>

\* except Exception as e: return TestResult(passed=False, error_message=str(e));
\* an exception that the clause does not catch leaves run_scenario
Except ==
  /\ s_pc = "except"
  /\ IF caught(exception[1])
     THEN /\ test_result' =
               <<TestResult(FALSE, <<>>, <<>>, <<exception[1].message>>, <<>>, <<>>)>>
          /\ s_pc' = "returned"
     ELSE /\ s_pc' = "propagated"
          /\ UNCHANGED test_result
  /\ UNCHANGED <<cmp_vars, wait, lookup_log, verbose, tx_hash, waited, geth_response,
                 besu_response, exception>>

ScenarioNext ==
  \/ RunScript
  \/ ExtractTxHash
  \/ ScenarioLookup
  \/ ScenarioTimeout
  \/ BesuWaitReturns
  \/ GethWaitReturns
  \/ TraceGeth
  \/ TraceBesu
  \/ SaveResponses
  \/ QuickComparison
  \/ FullComparison
  \/ Except

\* run_scenario is sequential code whose calls end: subprocess.run and
\* requests.post have timeouts and both waits are bounded
ScenarioSpec == ScenarioInit /\ [][ScenarioNext]_vars /\ WF_vars(ScenarioNext)

ScenarioReturned == s_pc = "returned"

\* what holds of a run of run_scenario at every moment
C30_Result ==
  /\ s_pc # "propagated"
  /\ ScenarioReturned <=> test_result # <<>>
  /\ (Len(waited) >= 1 /\ waited[1].ret = "False") => Len(waited) = 1
  /\ \A i \in DOMAIN waited : waited[i].client = (IF i = 1 THEN "besu" ELSE "geth")
  /\ ScenarioReturned =>
       LET r == test_result[1] IN
       /\ r.passed =>
            /\ Len(waited) = 2
            /\ \A i \in 1..2 : waited[i].ret = "True"
            /\ geth_response # <<>> /\ besu_response # <<>>
            /\ r.comparison # <<>> /\ r.comparison[1].is_match
            /\ exception = <<>>
       /\ exception # <<>> =>
            /\ ~r.passed
            /\ r.error_message = <<exception[1].message>>
            /\ r.comparison = <<>>

\* C30: run_scenario always returns a TestResult and never raises: passed is
\* true only if both clients indexed the transaction, both traces were
\* fetched and is_match is true; when a step raises (the script, no
\* transaction hash, the indexing timeout of Besu or of Geth, an RPC error)
\* the result has passed false, an error_message and no comparison; the Geth
\* wait is never started when the Besu wait timed out.
C30_ScenarioReturns == []C30_Result /\ <>ScenarioReturned

C30_Witness ==
  /\ ScenarioReturned
  /\ waited = <<[client |-> "besu", ret |-> "False"]>>
  /\ ~test_result[1].passed
  /\ test_result[1].error_message = <<"Transaction not indexed by Besu within timeout">>
  /\ test_result[1].comparison = <<>>
====
